---- MODULE Spec2Model ----
(***************************************************************************)
(* midibridge: a UDP listener that hands every datagram to its own         *)
(* goroutine (handleCmd), which strips the "/midi" prefix, decodes the     *)
(* 11-byte payload and writes the 3-byte MIDI message to the output device *)
(* under MidiBridge.mu; a background goroutine reads the MIDI input device *)
(* and prints what it reads.                                               *)
(*                                                                         *)
(* Byte slices are sequences of numbers in 0..255; Go's index i is index   *)
(* i+1 here.  The console output of a dispatch goroutine is kept per task  *)
(* (the order of lines printed by different goroutines is not modelled).   *)
(***************************************************************************)
EXTENDS Naturals, Integers, Sequences, FiniteSets, Bags, TLC

VARIABLES
    proc,     \* "running", "fatal" (log.Fatal has called os.Exit) or "panic" (runtime panic)
    buf,      \* main's receive buffer: the bytes of buf[0:Len(buf)]; the rest is still zero
    tasks,    \* the dispatch goroutines, in spawn order
    mu,       \* MidiBridge.mu: 0 when free, else the index of the task holding it
    calls,    \* the m.MidiOut.Write calls made so far, in order: writer and argument
    out,      \* the byte stream the output device has received, each byte with its writer
    errLog,   \* number of receive errors logged by main (log.Println(err))
    inBuf,    \* ListenMidiIn's read buffer, kept like buf
    sink,     \* what handleDeviceIn has printed, one line per call
    readErr,  \* TRUE once m.MidiIn.Read has returned an error: the reader goroutine
              \* is then inside log.Fatal
    shut      \* the shutdown protocol: the channel m.close, and where Close() and
              \* ListenMidiIn's wait loop are

vars == <<proc, buf, tasks, mu, calls, out, errLog, inBuf, sink, readErr, shut>>

----------------------------------------------------------------------------
(* Bounds of the model *)

MaxPackets == 2     \* iterations of main's receive loop
MaxReads == 1       \* successful reads of the MIDI input device

----------------------------------------------------------------------------
(* Program constants and pure functions *)

\* const midiCall = `/midi`
midiCall == <<47, 109, 105, 100, 105>>

\* the payload length handleBridgeIn accepts
PayloadLen == 11

Byte == 0..255

\* copy(dst, src) into the leading bytes of b, the rest of b kept
Overlay(b, s) ==
    [i \in 1..(IF Len(b) > Len(s) THEN Len(b) ELSE Len(s)) |->
        IF i <= Len(s) THEN s[i] ELSE b[i]]

\* bufCopy := make([]byte, n); copy(bufCopy, buf)
BufCopy(b, n) == [i \in 1..n |-> IF i <= Len(b) THEN b[i] ELSE 0]

\* faulty variant of ToMidi: the two nibbles exchanged
ToMidiSwapped(req) ==
    [State    |-> req[11] % 16,
     Channel  |-> req[11] \div 16,
     Note     |-> req[10],
     Velocity |-> req[9]]

\* func ToMidi(req []byte) Midi
ToMidi(req) ==
    [State    |-> req[11] \div 16,
     Channel  |-> req[11] % 16,
     Note     |-> req[10],
     Velocity |-> req[9]]

\* faulty variant of WireMessage: the first byte rebuilt from the status nibble alone
WireReencoded(req) == <<ToMidi(req).State * 16, ToMidi(req).Note, ToMidi(req).Velocity>>
\* []byte{req[10], req[9], req[8]}
WireMessage(req) == <<req[11], req[10], req[9]>>

\* faulty variant of HasMidiPrefix: the prefix must end the packet or be followed by a space
HasMidiPrefixWord(req) ==
    /\ Len(req) >= Len(midiCall)
    /\ SubSeq(req, 1, Len(midiCall)) = midiCall
    /\ (Len(req) = Len(midiCall) \/ req[Len(midiCall) + 1] = 32)

\* string(req[:len(midiCall)]) == midiCall, for a slice that is long enough
HasMidiPrefix(req) ==
    /\ Len(req) >= Len(midiCall)
    /\ SubSeq(req, 1, Len(midiCall)) = midiCall

\* req[:len(midiCall)] panics when cap(req) = len(req) < len(midiCall)
SlicePanics(req) == Len(req) < Len(midiCall)

\* faulty variant of StripPrefix: one byte too few stripped
StripShort(req) == SubSeq(req, Len(midiCall), Len(req))
\* req[len(midiCall):]
StripPrefix(req) == SubSeq(req, Len(midiCall) + 1, Len(req))

\* faulty variant of Rejects: only shorter payloads dropped
RejectsShorter(req) == Len(req) < PayloadLen
\* if len(req) != 11 { return }
Rejects(req) == Len(req) # PayloadLen

\* fmt.Printf("%08b", b): the 8 binary digits of b, most significant first
Bits8(b) == [i \in 1..8 |-> (b \div (2 ^ (8 - i))) % 2]

RECURSIVE Render(_)
\* handleDeviceIn: the digits of every byte of req, concatenated
Render(req) == IF req = <<>> THEN <<>> ELSE Bits8(Head(req)) \o Render(Tail(req))

----------------------------------------------------------------------------
(* Inputs *)

NoteOnPayload  == <<0, 0, 0, 0, 0, 0, 0, 0, 100, 60, 146>>
NoteOffPayload == <<1, 2, 3, 4, 5, 6, 7, 8, 0, 60, 130>>

\* datagrams the listener is fed
Packets ==
    { midiCall \o NoteOnPayload,
      midiCall \o NoteOffPayload,
      midiCall,
      midiCall \o NoteOffPayload \o <<144>>,
      <<47, 77, 73, 68, 73>> \o NoteOnPayload,
      <<47, 109, 105, 100>>,
      <<>> }

\* chunks the input device delivers
Chunks == { <<144, 60, 100>>, <<128>> }

NewTask(req, fromErr) ==
    [req     |-> req,       \* bufCopy
     fromErr |-> fromErr,   \* spawned by an iteration whose ReadFrom failed
     pc      |-> "cmd",
     data    |-> <<>>,      \* the argument of m.Write, once called
     n       |-> 0,         \* bytes of data the device has taken
     failed  |-> FALSE,     \* m.MidiOut.Write returned an error
     console |-> <<>>]      \* lines this goroutine printed

\* func NewMidiBridge(in, out *os.File): the close field is left nil; main
\* then starts ListenMidiIn, which waits in its select on m.close
NewMidiBridge == [ch |-> "nil", close |-> "idle", listen |-> "waiting"]

Init ==
    /\ proc = "running"
    /\ buf = <<>>
    /\ tasks = <<>>
    /\ mu = 0
    /\ calls = <<>>
    /\ out = <<>>
    /\ errLog = 0
    /\ inBuf = <<>>
    /\ sink = <<>>
    /\ readErr = FALSE
    /\ shut = NewMidiBridge

----------------------------------------------------------------------------
(* main: the receive loop *)

\* faulty variant of RecvLoop: the next receive waits for the earlier dispatches
RecvLoopWaits(pkt, max) ==
    /\ proc = "running"
    /\ Len(tasks) < max
    /\ \A t \in 1..Len(tasks) : tasks[t].pc = "done"
    /\ buf' = Overlay(buf, pkt)
    /\ tasks' = Append(tasks, NewTask(BufCopy(buf', Len(pkt)), FALSE))
    /\ UNCHANGED <<proc, mu, calls, out, errLog, inBuf, sink, readErr, shut>>

\* faulty variant of RecvLoop: buf[0:n] handed over without the copy, so every
\* task reads the receive buffer as it is now
RecvLoopAliased(pkt, max) ==
    /\ proc = "running"
    /\ Len(tasks) < max
    /\ buf' = Overlay(buf, pkt)
    /\ tasks' = Append([t \in 1..Len(tasks) |->
                            [tasks[t] EXCEPT !.req = BufCopy(buf', Len(tasks[t].req))]],
                       NewTask(BufCopy(buf', Len(pkt)), FALSE))
    /\ UNCHANGED <<proc, mu, calls, out, errLog, inBuf, sink, readErr, shut>>

\* one iteration of main's loop whose ReadFrom succeeds with datagram pkt,
\* while fewer than max datagrams have been received
RecvLoop(pkt, max) ==
    /\ proc = "running"
    /\ Len(tasks) < max
    /\ buf' = Overlay(buf, pkt)
    /\ tasks' = Append(tasks, NewTask(BufCopy(buf', Len(pkt)), FALSE))
    /\ UNCHANGED <<proc, mu, calls, out, errLog, inBuf, sink, readErr, shut>>

\* one iteration whose ReadFrom succeeds with datagram pkt
Receive(pkt) == RecvLoop(pkt, MaxPackets)

\* one iteration whose ReadFrom fails: n = 0, the error is logged, and the
\* empty copy is dispatched like any datagram
ReceiveErr ==
    /\ proc = "running"
    /\ Len(tasks) < MaxPackets
    /\ errLog' = errLog + 1
    /\ tasks' = Append(tasks, NewTask(BufCopy(buf, 0), TRUE))
    /\ UNCHANGED <<proc, buf, mu, calls, out, inBuf, sink, readErr, shut>>

----------------------------------------------------------------------------
(* the dispatch goroutines *)

Tasks == 1..Len(tasks)

Set(t, f, v) == [tasks EXCEPT ![t][f] = v]

\* the line fmt.Printf("MidiNote: %+v\n", ToMidi(req)) prints
NoteLine(p) ==
    <<"MidiNote", <<ToMidi(p).State, ToMidi(p).Channel, ToMidi(p).Note, ToMidi(p).Velocity>>>>

\* the line fmt.Printf("%s not implemeted\n", req) prints
NotImplLine(req) == <<"not implemeted", req>>

\* func (m *MidiBridge) handleCmd(req []byte): the switch
handleCmd(t) ==
    /\ proc = "running"
    /\ tasks[t].pc = "cmd"
    /\ IF SlicePanics(tasks[t].req)
       THEN /\ proc' = "panic"
            /\ tasks' = Set(t, "pc", "panicked")
       ELSE /\ proc' = proc
            /\ IF HasMidiPrefix(tasks[t].req)
               THEN tasks' = Set(t, "pc", "bridgeIn")
               ELSE tasks' = [tasks EXCEPT ![t].pc = "done",
                                           ![t].console = Append(@, NotImplLine(tasks[t].req))]
    /\ UNCHANGED <<buf, mu, calls, out, errLog, inBuf, sink, readErr, shut>>

\* faulty variant of handleBridgeIn: the lock taken on entry, before decoding
handleBridgeInLocked(t) ==
    /\ proc = "running"
    /\ tasks[t].pc = "bridgeIn"
    /\ mu = 0
    /\ mu' = t
    /\ LET p == StripPrefix(tasks[t].req) IN
         IF Rejects(p)
         THEN tasks' = Set(t, "pc", "done")
         ELSE tasks' = [tasks EXCEPT ![t].pc = "lock",
                                     ![t].console = Append(@, NoteLine(p)),
                                     ![t].data = WireMessage(p)]
    /\ UNCHANGED <<proc, buf, calls, out, errLog, inBuf, sink, readErr, shut>>

\* func (m *MidiBridge) handleBridgeIn(req []byte), up to the call of m.Write
handleBridgeIn(t) ==
    /\ proc = "running"
    /\ tasks[t].pc = "bridgeIn"
    /\ LET p == StripPrefix(tasks[t].req) IN
         IF Rejects(p)
         THEN tasks' = Set(t, "pc", "done")
         ELSE tasks' = [tasks EXCEPT ![t].pc = "lock",
                                     ![t].console = Append(@, NoteLine(p)),
                                     ![t].data = WireMessage(p)]
    /\ UNCHANGED <<proc, buf, mu, calls, out, errLog, inBuf, sink, readErr, shut>>

\* faulty variant of Lock: enters without waiting for the holder
LockNoWait(t) ==
    /\ proc = "running"
    /\ tasks[t].pc = "lock"
    /\ mu' = t
    /\ calls' = Append(calls, [t |-> t, data |-> tasks[t].data])
    /\ tasks' = Set(t, "pc", "write")
    /\ UNCHANGED <<proc, buf, out, errLog, inBuf, sink, readErr, shut>>

\* faulty variant of Lock: the lock granted in the order of receipt
LockInOrder(t) ==
    /\ proc = "running"
    /\ tasks[t].pc = "lock"
    /\ mu = 0
    /\ \A e \in 1..(t - 1) : tasks[e].pc \in {"unlock", "done"}
    /\ mu' = t
    /\ calls' = Append(calls, [t |-> t, data |-> tasks[t].data])
    /\ tasks' = Set(t, "pc", "write")
    /\ UNCHANGED <<proc, buf, out, errLog, inBuf, sink, readErr, shut>>

\* Write: m.mu.Lock() returns and m.MidiOut.Write(data) is entered
Lock(t) ==
    /\ proc = "running"
    /\ tasks[t].pc = "lock"
    /\ mu = 0
    /\ mu' = t
    /\ calls' = Append(calls, [t |-> t, data |-> tasks[t].data])
    /\ tasks' = Set(t, "pc", "write")
    /\ UNCHANGED <<proc, buf, out, errLog, inBuf, sink, readErr, shut>>

\* faulty variant of AfterWrite: an early return on error, before the Unlock
AfterWriteLeaky(failed) == IF failed THEN "done" ELSE "unlock"
\* where Write goes once m.MidiOut.Write has returned (failed or not): the
\* deferred m.mu.Unlock()
AfterWrite(failed) == "unlock"

\* inside m.MidiOut.Write(data): the device takes the next byte
DeviceWriteByte(t) ==
    /\ proc = "running"
    /\ tasks[t].pc = "write"
    /\ tasks[t].n < Len(tasks[t].data)
    /\ out' = Append(out, [b |-> tasks[t].data[tasks[t].n + 1], t |-> t])
    /\ tasks' = [tasks EXCEPT ![t].n = @ + 1,
                              ![t].pc = IF tasks[t].n + 1 = Len(tasks[t].data)
                                        THEN AfterWrite(FALSE) ELSE "write"]
    /\ UNCHANGED <<proc, buf, mu, calls, errLog, inBuf, sink, readErr, shut>>

\* m.MidiOut.Write(data) returns an error; Write drops it
DeviceWriteFail(t) ==
    /\ proc = "running"
    /\ tasks[t].pc = "write"
    /\ tasks' = [tasks EXCEPT ![t].failed = TRUE, ![t].pc = AfterWrite(TRUE)]
    /\ UNCHANGED <<proc, buf, mu, calls, out, errLog, inBuf, sink, readErr, shut>>

\* defer m.mu.Unlock()
Unlock(t) ==
    /\ proc = "running"
    /\ tasks[t].pc = "unlock"
    /\ mu' = 0
    /\ tasks' = Set(t, "pc", "done")
    /\ UNCHANGED <<proc, buf, calls, out, errLog, inBuf, sink, readErr, shut>>

----------------------------------------------------------------------------
(* ListenMidiIn: the reader goroutine *)

\* faulty variant of ReadLoop: the read buffer forwarded as it is, without
\* cutting the copy to the n bytes read
ReadLoopStale(chunk, max) ==
    /\ proc = "running"
    /\ ~readErr
    /\ Len(sink) < max
    /\ inBuf' = Overlay(inBuf, chunk)
    /\ sink' = Append(sink, Render(inBuf'))
    /\ UNCHANGED <<proc, buf, tasks, mu, calls, out, errLog, readErr, shut>>

\* one iteration of the reader goroutine whose Read succeeds with chunk,
\* while fewer than max reads have succeeded
ReadLoop(chunk, max) ==
    /\ proc = "running"
    /\ ~readErr
    /\ Len(sink) < max
    /\ inBuf' = Overlay(inBuf, chunk)
    /\ sink' = Append(sink, Render(BufCopy(inBuf', Len(chunk))))
    /\ UNCHANGED <<proc, buf, tasks, mu, calls, out, errLog, readErr, shut>>

DeviceRead(chunk) == ReadLoop(chunk, MaxReads)

\* what log.Fatal(err) makes of the process once its message is out: os.Exit(1)
OnReadErr == "fatal"

\* m.MidiIn.Read returns an error: the reader goroutine enters log.Fatal(err),
\* which first writes the message to stderr; the other goroutines run on
DeviceReadErr ==
    /\ proc = "running"
    /\ ~readErr
    /\ readErr' = TRUE
    /\ UNCHANGED <<proc, buf, tasks, mu, calls, out, errLog, inBuf, sink, shut>>

\* faulty variant of FatalExit: the error only logged, and the loop reads again
FatalExitReturns ==
    /\ proc = "running"
    /\ readErr
    /\ readErr' = FALSE
    /\ UNCHANGED <<proc, buf, tasks, mu, calls, out, errLog, inBuf, sink, shut>>

\* log.Fatal(err), after the message: os.Exit(1) ends every goroutine
FatalExit ==
    /\ proc = "running"
    /\ readErr
    /\ proc' = OnReadErr
    /\ UNCHANGED <<buf, tasks, mu, calls, out, errLog, inBuf, sink, readErr, shut>>

----------------------------------------------------------------------------

Next ==
    \/ \E pkt \in Packets : Receive(pkt)
    \/ ReceiveErr
    \/ \E t \in Tasks : handleCmd(t)
    \/ \E t \in Tasks : handleBridgeIn(t)
    \/ \E t \in Tasks : Lock(t)
    \/ \E t \in Tasks : DeviceWriteByte(t)
    \/ \E t \in Tasks : DeviceWriteFail(t)
    \/ \E t \in Tasks : Unlock(t)
    \/ \E chunk \in Chunks : DeviceRead(chunk)
    \/ DeviceReadErr
    \/ FatalExit

Spec == Init /\ [][Next]_vars

----------------------------------------------------------------------------
(* One datagram handled alone, over a wide range of datagrams *)

MaxTail == 13       \* longest remainder after the 5-byte prefix

Fills == { <<0, 0, 0, 0, 0, 0, 0, 0>>, <<255, 1, 32, 47, 109, 105, 100, 105>> }
NoteBytes == {0, 60, 128, 255}
VelocityBytes == {0, 100, 127}
Heads == { midiCall, <<47, 77, 73, 68, 73>>, <<47, 109, 105, 100, 73>>, <<109, 105, 100, 105, 47>> }

\* the bytes 1, 2, .. n
Ramp(n) == [i \in 1..n |-> i]

CodecPackets ==
    { midiCall \o f \o <<v, nt, st>> :
        f \in Fills, v \in VelocityBytes, nt \in NoteBytes, st \in Byte }
    \cup { h \o Ramp(n) : h \in Heads, n \in 0..MaxTail }
    \cup { Ramp(n) : n \in 0..4 }

InitCodec ==
    /\ proc = "running"
    /\ \E pkt \in CodecPackets :
         /\ buf = pkt
         /\ tasks = <<NewTask(BufCopy(pkt, Len(pkt)), FALSE)>>
    /\ mu = 0
    /\ calls = <<>>
    /\ out = <<>>
    /\ errLog = 0
    /\ inBuf = <<>>
    /\ sink = <<>>
    /\ readErr = FALSE
    /\ shut = NewMidiBridge

NextCodec ==
    \/ \E t \in Tasks : handleCmd(t)
    \/ \E t \in Tasks : handleBridgeIn(t)
    \/ \E t \in Tasks : Lock(t)
    \/ \E t \in Tasks : DeviceWriteByte(t)
    \/ \E t \in Tasks : DeviceWriteFail(t)
    \/ \E t \in Tasks : Unlock(t)

SpecCodec == InitCodec /\ [][NextCodec]_vars

----------------------------------------------------------------------------
(* The dispatch path alone: more datagrams in flight, a device that takes  *)
(* every byte, every goroutine scheduled fairly                            *)

MaxFlow == 3        \* iterations of main's receive loop

FlowPackets ==
    { midiCall \o NoteOnPayload,
      midiCall \o NoteOffPayload,
      <<47, 109, 105, 100>> }

NextFlow ==
    \/ \E pkt \in FlowPackets : RecvLoop(pkt, MaxFlow)
    \/ \E t \in Tasks : handleCmd(t)
    \/ \E t \in Tasks : handleBridgeIn(t)
    \/ \E t \in Tasks : Lock(t)
    \/ \E t \in Tasks : DeviceWriteByte(t)
    \/ \E t \in Tasks : Unlock(t)

\* the next step of dispatch goroutine t, whichever it is
TaskStep(t) ==
    /\ t \in Tasks
    /\ \/ handleCmd(t)
       \/ handleBridgeIn(t)
       \/ Lock(t)
       \/ DeviceWriteByte(t)
       \/ Unlock(t)

\* a runnable goroutine is eventually run, and a device write in progress
\* eventually takes its next byte
FairFlow ==
    /\ Init
    /\ [][NextFlow]_vars
    /\ \A t \in 1..MaxFlow : WF_vars(TaskStep(t))

----------------------------------------------------------------------------
(* The bridge alone: the reader goroutine and a caller of Close()          *)

MaxListen == 3      \* successful reads of the MIDI input device

ListenChunks == { <<144, 60, 100>>, <<128>>, <<128, 60>>, <<255, 0, 1, 254>> }

\* func (m *MidiBridge) Close(): m.close <- true.  The send is taken by the
\* receive in ListenMidiIn's select, which then returns; on a nil channel it
\* blocks
Close ==
    /\ proc = "running"
    /\ shut.close = "idle"
    /\ shut' = IF shut.ch # "nil" /\ shut.listen = "waiting"
               THEN [shut EXCEPT !.close = "returned", !.listen = "returned"]
               ELSE [shut EXCEPT !.close = "blocked"]
    /\ UNCHANGED <<proc, buf, tasks, mu, calls, out, errLog, inBuf, sink, readErr>>

NextBridge ==
    \/ \E chunk \in ListenChunks : ReadLoop(chunk, MaxListen)
    \/ DeviceReadErr
    \/ FatalExit
    \/ Close

FairBridge == Init /\ [][NextBridge]_vars /\ WF_vars(NextBridge)

----------------------------------------------------------------------------
(* Vocabulary of the properties *)

\* the bytes task t has put on the device stream, in order
OutOf(t) ==
    LET own == SelectSeq(out, LAMBDA e : e.t = t)
    IN  [i \in 1..Len(own) |-> own[i].b]

\* the arguments of the device writes task t has made, in order
CallsOf(t) ==
    LET own == SelectSeq(calls, LAMBDA c : c.t = t)
    IN  [i \in 1..Len(own) |-> own[i].data]

\* the first 5 bytes of pkt are '/', 'm', 'i', 'd', 'i'
StartsWithMidi(pkt) ==
    /\ Len(pkt) >= 5
    /\ pkt[1] = 47 /\ pkt[2] = 109 /\ pkt[3] = 105 /\ pkt[4] = 100 /\ pkt[5] = 105

\* a valid packet: the prefix followed by exactly 11 bytes
ValidPacket(pkt) == StartsWithMidi(pkt) /\ Len(pkt) = 16

\* the message of a valid packet: payload bytes 10, 9, 8 (0-based)
MessageOf(pkt) == <<pkt[16], pkt[15], pkt[14]>>

ValidTasks == { t \in Tasks : ValidPacket(tasks[t].req) }

----------------------------------------------------------------------------
(* C1: device writes never interleave.  At most one task is inside the     *)
(* device write at any time; the bytes of one task are never separated by  *)
(* a byte of another task; and a task whose write completed has its 3      *)
(* bytes next to each other in the device stream.                          *)
C1_WritesNeverInterleave ==
    /\ Cardinality({ t \in Tasks : tasks[t].pc = "write" }) <= 1
    /\ \A i \in DOMAIN out : \A j \in DOMAIN out :
         (i < j /\ out[i].t = out[j].t) => \A k \in i..j : out[k].t = out[i].t
    /\ \A t \in Tasks :
         (ValidPacket(tasks[t].req) /\ tasks[t].n = 3) =>
            \E i \in DOMAIN out :
               /\ i + 2 <= Len(out)
               /\ \A d \in 0..2 : out[i + d] = [b |-> MessageOf(tasks[t].req)[d + 1], t |-> t]

\* one task is in the middle of its write while another waits for the lock
C1_Witness ==
    \E t \in Tasks : \E u \in Tasks :
        /\ t # u
        /\ tasks[t].pc = "write" /\ tasks[t].n = 1
        /\ tasks[u].pc = "lock"

(* C2: once the tasks of all valid packets received have finished, the     *)
(* device has been handed exactly one 3-byte write per valid packet: the   *)
(* bag of written messages is the bag of [p[10], p[9], p[8]] over the      *)
(* valid packets, and every write the device did not fail is in the stream *)
(* in full.                                                                *)
C2_OneWritePerValidPacket ==
    (\A t \in ValidTasks : tasks[t].pc = "done") =>
        /\ Len(calls) = Cardinality(ValidTasks)
        /\ \A m \in { calls[i].data : i \in DOMAIN calls } \cup { MessageOf(tasks[t].req) : t \in ValidTasks } :
             Cardinality({ i \in DOMAIN calls : calls[i].data = m })
               = Cardinality({ t \in ValidTasks : MessageOf(tasks[t].req) = m })
        /\ \A t \in ValidTasks : Len(tasks[t].data) = 3
        /\ \A t \in ValidTasks : ~tasks[t].failed => OutOf(t) = MessageOf(tasks[t].req)

\* two valid packets, both handled, the later one written first
C2_Witness ==
    /\ Cardinality(ValidTasks) = 2
    /\ \A t \in ValidTasks : tasks[t].pc = "done" /\ ~tasks[t].failed
    /\ Len(out) = 6
    /\ out[1].t = 2

(* C3: handling an 11-byte payload p writes exactly [p[10], p[9], p[8]],   *)
(* whatever p[0..7] are: that is the argument of the one write the task    *)
(* makes, and what the device stream holds when the write did not fail.    *)
C3_PayloadToWire ==
    \A t \in Tasks :
        LET p == SubSeq(tasks[t].req, 6, Len(tasks[t].req))
        IN  (StartsWithMidi(tasks[t].req) /\ Len(p) = 11) =>
              /\ tasks[t].pc \in {"lock", "write", "unlock", "done"} =>
                    tasks[t].data = <<p[11], p[10], p[9]>>
              /\ tasks[t].pc \in {"write", "unlock", "done"} =>
                    CallsOf(t) = << <<p[11], p[10], p[9]>> >>
              /\ (tasks[t].pc = "done" /\ ~tasks[t].failed) =>
                    OutOf(t) = <<p[11], p[10], p[9]>>

\* combined byte 0x92, note 60, velocity 100, behind non-zero leading bytes
C3_Witness ==
    \E t \in Tasks :
        /\ tasks[t].pc = "done"
        /\ Len(tasks[t].req) = 16 /\ tasks[t].req[6] = 255
        /\ OutOf(t) = <<146, 60, 100>>

(* C4: a packet whose first 5 bytes are not "/midi" (shorter packets and   *)
(* the empty packet included) is only reported as not implemented: its     *)
(* task ends with that one line printed, no device write, the lock never   *)
(* taken, and the process not brought down by it.                          *)
C4_NonMidiOnlyReported ==
    \A t \in Tasks :
        (~StartsWithMidi(tasks[t].req) /\ tasks[t].pc # "cmd") =>
            /\ tasks[t].pc = "done"
            /\ tasks[t].console = << <<"not implemeted", tasks[t].req>> >>
            /\ CallsOf(t) = <<>>
            /\ OutOf(t) = <<>>
            /\ mu # t

(* C5: a receive error does not stop the listener: the task dispatched by  *)
(* the failed iteration does not bring the process down, so a process that *)
(* logged a receive error is down only for another reason.                 *)
C5_ReceiveErrorNotFatal ==
    /\ \A t \in Tasks : tasks[t].fromErr => tasks[t].pc # "panicked"
    /\ (errLog > 0 /\ proc = "panic") =>
          \E u \in Tasks : ~tasks[u].fromErr /\ tasks[u].pc = "panicked"

(* C6: a payload whose length is not 11 (the empty remainder included) is  *)
(* dropped silently: the task ends with nothing printed, no device write   *)
(* made and no panic, and the step that drops it leaves the device stream, *)
(* the lock and the process untouched.                                     *)
C6_DroppedState ==
    \A t \in Tasks :
        (StartsWithMidi(tasks[t].req) /\ Len(tasks[t].req) # 16
            /\ tasks[t].pc \notin {"cmd", "bridgeIn"}) =>
            /\ tasks[t].pc = "done"
            /\ tasks[t].console = <<>>
            /\ tasks[t].data = <<>>
            /\ CallsOf(t) = <<>>
            /\ OutOf(t) = <<>>
            /\ mu # t

C6_DropStep ==
    \A t \in Tasks :
        (StartsWithMidi(tasks[t].req) /\ Len(tasks[t].req) # 16
            /\ tasks[t].pc = "bridgeIn" /\ tasks'[t].pc # "bridgeIn") =>
            /\ tasks' = [tasks EXCEPT ![t].pc = "done"]
            /\ out' = out /\ calls' = calls /\ mu' = mu /\ proc' = proc

C6_WrongLengthDropped == []C6_DroppedState /\ [][C6_DropStep]_vars

\* the bare prefix and a 12-byte payload have both been dropped
C6_Witness ==
    \E t \in Tasks : \E u \in Tasks :
        /\ Len(tasks[t].req) = 5 /\ StartsWithMidi(tasks[t].req) /\ tasks[t].pc = "done"
        /\ Len(tasks[u].req) = 17 /\ StartsWithMidi(tasks[u].req) /\ tasks[u].pc = "done"

(* C7: only the first 5 bytes are matched.  A packet P that starts with    *)
(* "/midi" is never reported as not implemented; once handled, it has made *)
(* a device write iff len(P) = 16, and then the bytes written are          *)
(* [P[15], P[14], P[13]] whatever P[5..12] are.                            *)
C7_PrefixOnly ==
    \A t \in Tasks :
        StartsWithMidi(tasks[t].req) =>
            /\ tasks[t].pc # "panicked"
            /\ \A i \in DOMAIN tasks[t].console : tasks[t].console[i][1] # "not implemeted"
            /\ tasks[t].pc = "done" =>
                  /\ (CallsOf(t) # <<>>) <=> (Len(tasks[t].req) = 16)
                  /\ Len(tasks[t].req) = 16 =>
                        /\ CallsOf(t) = << <<tasks[t].req[16], tasks[t].req[15], tasks[t].req[14]>> >>
                        /\ ~tasks[t].failed =>
                              OutOf(t) = <<tasks[t].req[16], tasks[t].req[15], tasks[t].req[14]>>

\* a 16-byte packet whose bytes after the prefix start 255, 1, 32, '/', 'm' was written
C7_Witness ==
    \E t \in Tasks :
        /\ StartsWithMidi(tasks[t].req) /\ Len(tasks[t].req) = 16
        /\ tasks[t].req[6] = 255 /\ tasks[t].req[9] = 47
        /\ tasks[t].pc = "done"
        /\ Len(OutOf(t)) = 3

(* C8: Write releases the lock on every path.  A task that has returned    *)
(* from Write, its device write failed or not, does not hold the lock; the *)
(* lock is free whenever no task is inside Write; and the step in which a  *)
(* device write fails leaves the process running and nothing surfaced.     *)
C8_ReleasedState ==
    /\ \A t \in Tasks : tasks[t].pc = "done" => mu # t
    /\ (\A t \in Tasks : tasks[t].pc \notin {"write", "unlock"}) => mu = 0

C8_FailStep ==
    \A t \in Tasks :
        (~tasks[t].failed /\ tasks'[t].failed) =>
            /\ proc' = "running"
            /\ tasks'[t].pc = "unlock"
            /\ tasks'[t].console = tasks[t].console
            /\ errLog' = errLog

C8_LockAlwaysReleased == []C8_ReleasedState /\ [][C8_FailStep]_vars

\* after a failed write has returned, another task has taken the lock
C8_Witness ==
    \E t \in Tasks : \E u \in Tasks :
        /\ tasks[t].failed /\ tasks[t].pc = "done"
        /\ tasks[u].pc = "write" /\ mu = u
        /\ Len(calls) = 2 /\ calls[1].t = t /\ calls[2].t = u
        /\ proc = "running"

(* C9 as first stated: once the read has failed nothing happens any more: *)
(* no datagram is received, no task advanced and no byte written.          *)
C9_NothingAfterFailedRead ==
    [][readErr => UNCHANGED <<buf, tasks, mu, calls, out, errLog>>]_vars

(* C9: a read error on the MIDI input device is fatal to the process.  The *)
(* reader never reads again after the failed read; the exit that follows   *)
(* waits for no dispatch task; and once the process has exited nothing     *)
(* changes: no datagram received, no task advanced, no byte written.       *)
C9_NoRetry ==
    readErr => (readErr' /\ sink' = sink /\ inBuf' = inBuf)

C9_ExitNeverWaits ==
    /\ proc = "fatal" => readErr
    /\ (readErr /\ proc = "running") => ENABLED FatalExit

C9_ReadErrorFatal ==
    /\ []C9_ExitNeverWaits
    /\ [][C9_NoRetry]_vars
    /\ [][proc = "fatal" => UNCHANGED vars]_vars

\* the process went down with one task mid-write and another waiting for the lock
C9_Witness ==
    /\ readErr /\ proc = "fatal"
    /\ \E t \in Tasks : \E u \in Tasks :
         /\ tasks[t].pc = "write" /\ tasks[t].n = 1 /\ mu = t
         /\ tasks[u].pc = "lock"

(* C10: the lock is held only around the device write.  A task that is     *)
(* matching the prefix, checking the length, has decoded and logged and is *)
(* waiting for the lock, or has finished, does not hold it; the holder is  *)
(* inside Write; and no task makes more than one write.                    *)
C10_LockOnlyAroundWrite ==
    /\ \A t \in Tasks :
         /\ tasks[t].pc \in {"cmd", "bridgeIn", "lock", "done", "panicked"} => mu # t
         /\ Len(CallsOf(t)) <= 1
         /\ tasks[t].pc \in {"cmd", "bridgeIn", "lock"} => CallsOf(t) = <<>>
    /\ mu # 0 => (mu \in Tasks /\ tasks[mu].pc \in {"write", "unlock"})

\* one task has logged its MidiNote and waits while the other is about to unlock
C10_Witness ==
    \E t \in Tasks : \E u \in Tasks :
        /\ tasks[t].pc = "lock" /\ Len(tasks[t].console) = 1
        /\ tasks[u].pc = "unlock" /\ mu = u

(* C11: the receive loop never waits for a dispatch task.  While the       *)
(* process runs (and the model's count of datagrams is not used up), the   *)
(* next datagram can be received whatever the earlier tasks are doing:     *)
(* unfinished, waiting for the lock or inside a device write.              *)
C11_ReceiveNeverWaits ==
    (proc = "running" /\ Len(tasks) < MaxFlow) =>
        \A pkt \in FlowPackets : ENABLED RecvLoop(pkt, MaxFlow)

\* three tasks in flight at once: one mid-write, one waiting for the lock,
\* and the one just spawned
C11_Witness ==
    /\ Len(tasks) = 3
    /\ tasks[1].pc = "write" /\ tasks[1].n = 1
    /\ tasks[2].pc = "lock"
    /\ tasks[3].pc = "cmd"

(* C12: each task works on its own copy of its datagram.  The bytes a task *)
(* holds are those of the datagram it was spawned for, and no later step,  *)
(* a later receive into the reused buffer included, changes them.          *)
C12_Step ==
    /\ Len(tasks') >= Len(tasks)
    /\ \A t \in Tasks : tasks'[t].req = tasks[t].req
    /\ \A pkt \in Packets : Receive(pkt) => tasks'[Len(tasks')].req = pkt

C12_OwnCopy == [][C12_Step]_vars

\* the first task is still running on its 17 bytes after the receive buffer
\* was reused for a different datagram
C12_Witness ==
    /\ Len(tasks) = 2
    /\ tasks[1].pc \in {"cmd", "bridgeIn"}
    /\ Len(tasks[1].req) = 17
    /\ Len(buf) = 17
    /\ SubSeq(buf, 1, 16) = tasks[2].req
    /\ tasks[2].req # SubSeq(tasks[1].req, 1, 16)

(* C13: the order of device writes is not tied to the order of receipt.    *)
(* A task that waits for the lock gets it as soon as the lock is free, and *)
(* a task before the lock can always take its next step, whatever earlier  *)
(* received tasks are doing; so a later message can be written first.      *)
C13_OrderNotTied ==
    proc = "running" =>
        \A u \in Tasks :
            /\ tasks[u].pc = "cmd" => ENABLED handleCmd(u)
            /\ tasks[u].pc = "bridgeIn" => ENABLED handleBridgeIn(u)
            /\ (tasks[u].pc = "lock" /\ mu = 0) => ENABLED Lock(u)

\* the note-off received second is on the device before the note-on received first
C13_Witness ==
    /\ Len(tasks) >= 2
    /\ tasks[1].req = <<47, 109, 105, 100, 105, 0, 0, 0, 0, 0, 0, 0, 0, 100, 60, 146>>
    /\ tasks[2].req = <<47, 109, 105, 100, 105, 1, 2, 3, 4, 5, 6, 7, 8, 0, 60, 130>>
    /\ Len(out) = 6
    /\ \A i \in 1..3 : out[i].t = 2
    /\ \A i \in 4..6 : out[i].t = 1
    /\ out[1].b = 130 /\ out[4].b = 146

(* C14: decoding an 11-byte payload p gives State and Channel in 0..15     *)
(* with State*16 + Channel = p[10] (the high and the low nibble), Note =   *)
(* p[9] and Velocity = p[8], with no range check on Note and Velocity.     *)
C14_Decode ==
    \A t \in Tasks :
        (StartsWithMidi(tasks[t].req) /\ Len(tasks[t].req) = 16
            /\ tasks[t].pc \in {"lock", "write", "unlock", "done"}) =>
            /\ Len(tasks[t].console) = 1
            /\ tasks[t].console[1][1] = "MidiNote"
            /\ LET m == tasks[t].console[1][2]
               IN  /\ m[1] \in 0..15
                   /\ m[2] \in 0..15
                   /\ m[1] * 16 + m[2] = tasks[t].req[16]
                   /\ m[3] = tasks[t].req[15]
                   /\ m[4] = tasks[t].req[14]

\* status 9 on channel 2 decoded, with the out-of-range note 255 accepted
C14_Witness ==
    \E t \in Tasks :
        /\ tasks[t].pc = "done"
        /\ tasks[t].console = << <<"MidiNote", <<9, 2, 255, 100>> >> >>

\* the byte spelled by digits 8i-7 .. 8i of a printed line
ByteOfDigits(line, i) ==
    LET d(k) == line[8 * (i - 1) + k]
    IN  128 * d(1) + 64 * d(2) + 32 * d(3) + 16 * d(4) + 8 * d(5) + 4 * d(6) + 2 * d(7) + d(8)

(* C15: every successful read of n bytes forwards exactly those n bytes,   *)
(* in order, never bytes left in the read buffer by a longer read; the     *)
(* loop then reads again (until a read fails); and forwarding touches      *)
(* neither the output lock nor the output device.                          *)
C15_ReadsAgain ==
    (proc = "running" /\ ~readErr /\ Len(sink) < MaxListen) =>
        \A chunk \in ListenChunks : ENABLED ReadLoop(chunk, MaxListen)

C15_Step ==
    \A chunk \in ListenChunks :
        ReadLoop(chunk, MaxListen) =>
            /\ Len(sink') = Len(sink) + 1
            /\ SubSeq(sink', 1, Len(sink)) = sink
            /\ Len(sink'[Len(sink')]) = 8 * Len(chunk)
            /\ \A i \in 1..Len(chunk) : ByteOfDigits(sink'[Len(sink')], i) = chunk[i]
            /\ mu' = mu /\ out' = out /\ calls' = calls /\ tasks' = tasks

C15_ForwardsWhatWasRead == []C15_ReadsAgain /\ [][C15_Step]_vars

\* a 1-byte read forwarded after a 4-byte read, the buffer still holding 4 bytes
C15_Witness ==
    /\ Len(sink) = 2
    /\ Len(sink[1]) = 32
    /\ sink[2] = <<1, 0, 0, 0, 0, 0, 0, 0>>
    /\ Len(inBuf) = 4

(* C16: with a device that takes every byte and fair scheduling, every     *)
(* valid packet received is eventually written to the device in full and   *)
(* its task terminates.                                                    *)
C16_EveryValidPacketWritten ==
    \A t \in 1..MaxFlow :
        []((t \in Tasks /\ ValidPacket(tasks[t].req)) =>
              <>(/\ t \in Tasks /\ ValidPacket(tasks[t].req)
                 /\ tasks[t].pc = "done" /\ OutOf(t) = MessageOf(tasks[t].req)))

(* C17: once Close() has been called on the bridge, it eventually returns  *)
(* and ListenMidiIn returns with it.                                       *)
C17_CloseReturns ==
    (shut.close # "idle") ~> (shut.close = "returned" /\ shut.listen = "returned")

====
